---- MODULE Spec2Model ----
(***************************************************************************)
(* Model of the Wikipedia recent-changes ingestion pipeline                *)
(* (src/pipeline.py) and of the dashboard's read path (src/dashboard.py).  *)
(*                                                                         *)
(* The writer process is main() -> pipeline(): it connects to the SSE      *)
(* stream, filters and normalises each message, inserts kept events into   *)
(* SQLite inside an open transaction, commits on a time schedule and       *)
(* trims the table once a row-count threshold is reached.  The dashboard   *)
(* is a second process polling the same file on its own connection.        *)
(***************************************************************************)
EXTENDS Integers, FiniteSets, Sequences, TLC

\* ---------------------------------------------------------------- bounds
MaxM    == 1    \* db_max_events is drawn from 0..MaxM
MaxSeq  == 3    \* at most this many rows are inserted in one run
MaxTime == 7    \* the wall clock runs from 0 to MaxTime seconds
MaxExisting == 2  \* a store found at startup holds ids up to MaxExisting
BufferedM == 10   \* a db_max_events large enough for int(1.1 * M) > M
MaxLen  == 2    \* length.old and length.new are drawn from 0..MaxLen

\* ------------------------------------------------------ program constants
commit_interval_seconds == 2
backoff_seconds         == 5

VARIABLES
    pc,                 \* coordinator position: connecting, streaming, cleanup,
                        \* cleanup_commit, backoff, shutdown, crashed
    db_max_events,      \* config.db_max_events
    now,                \* time.time(), whole seconds
    last_commit_time,   \* pipeline() local
    wake_time,          \* end of the current time.sleep(5)
    rows,               \* ids of the rows the writer connection sees
    committed,          \* ids of the rows of the last committed snapshot
    seq,                \* sqlite_sequence: largest id ever assigned
    rows_added_to_db,   \* pipeline() local
    current_row_count,  \* pipeline() local
    msg,                \* the last SSE event read from the stream
    insert_result,      \* what db_insert_event returned for msg, "none" if not called
    last_step,          \* the operation the coordinator performed last
    exit_cause,         \* exception that ended pipeline(), "none" while running
    d_pc,               \* dashboard position inside its poll loop
    newest_row_id,      \* dashboard: SELECT MAX(id) ... or 0
    current_total_rows, \* dashboard: SELECT MAX(id) - MIN(id) + 1 ... or 0
    data,               \* transform_data: its argument
    clean_data          \* transform_data: its result

vars == <<pc, db_max_events, now, last_commit_time, wake_time, rows, committed,
          seq, rows_added_to_db, current_row_count, msg, insert_result,
          last_step, exit_cause, d_pc, newest_row_id, current_total_rows,
          data, clean_data>>

writer_vars == <<pc, db_max_events, last_commit_time, wake_time, rows,
                 committed, seq, rows_added_to_db, current_row_count, msg,
                 insert_result, last_step, exit_cause>>

dashboard_vars == <<d_pc, newest_row_id, current_total_rows>>

transform_vars == <<data, clean_data>>

\* ------------------------------------------------------------- helpers
SetMax(S) == CHOOSE x \in S : \A y \in S : y <= x

SetMin(S) == CHOOSE x \in S : \A y \in S : x <= y

\* SQL scalar MAX(a, b)
Max2(a, b) == IF a >= b THEN a ELSE b

\* exceptions the requests library raises on a transport failure
TransportErrors == {"Timeout", "ConnectionError", "ChunkedEncodingError"}

\* an except clause that forgets ChunkedEncodingError
Caught_NoChunked(e) == e \in {"Timeout", "ConnectionError"}

\* pipeline()'s except clause: is exception e handled by it?
Caught(e) == e \in {"Timeout", "ConnectionError", "ChunkedEncodingError"}

\* --------------------------------------------------------- SSE messages
\* kind: "not_message" (event.event # 'message' or empty data),
\*       "invalid_json", "non_object" (valid JSON that is no dict), "object".
\* For objects: type is the 'type' value or "absent"; bot is "true", "false"
\* or "absent"; length and meta are "obj", "absent" or "null".
Message(k, t, b, l, m) == [kind |-> k, type |-> t, bot |-> b, length |-> l, meta |-> m]

Messages ==
    { Message("not_message",  "absent", "absent", "absent", "absent"),
      Message("invalid_json", "absent", "absent", "absent", "absent"),
      Message("non_object",   "absent", "absent", "absent", "absent"),
      Message("object", "absent", "false",  "obj",    "obj"),
      Message("object", "log",    "false",  "obj",    "obj"),
      Message("object", "edit",   "false",  "obj",    "obj"),
      Message("object", "new",    "true",   "obj",    "obj"),
      Message("object", "edit",   "true",   "absent", "obj"),
      Message("object", "edit",   "absent", "absent", "obj"),
      Message("object", "edit",   "true",   "null",   "obj"),
      Message("object", "new",    "false",  "obj",    "null") }

NoMessage == Message("not_message", "absent", "absent", "absent", "absent")

\* a generator without the except json.JSONDecodeError clause
sse_event_generator_NoJsonGuard(m) ==
    CASE m.kind = "not_message"  -> "skip"
      [] m.kind = "invalid_json" -> "JSONDecodeError"
      [] m.kind = "non_object"   -> "AttributeError"
      [] OTHER -> IF m.type \in {"edit", "new"} THEN "yield" ELSE "drop"

\* sse_event_generator: what the generator does with one SSE event.
\*   "skip"  - not a data message, or json.loads raised JSONDecodeError
\*   "drop"  - decoded, type not in ('edit', 'new')
\*   "yield" - decoded and kept
\*   "AttributeError" - decoded to a non-dict: data.get raises, uncaught
sse_event_generator(m) ==
    CASE m.kind = "not_message"  -> "skip"
      [] m.kind = "invalid_json" -> "skip"
      [] m.kind = "non_object"   -> "AttributeError"
      [] OTHER -> IF m.type \in {"edit", "new"} THEN "yield" ELSE "drop"

\* transform_data: "ok", or the exception it raises (in evaluation order:
\* meta.get, length_data.get, int(data.get('bot'))).
transform_data(m) ==
    CASE m.meta = "null"   -> "AttributeError"
      [] m.length = "null" -> "AttributeError"
      [] m.bot = "absent"  -> "TypeError"
      [] OTHER             -> "ok"

\* The decoded event as transform_data reads it: bot, meta and length as in
\* Message; old_kind/new_kind say whether length.old/length.new is an
\* integer ("int"), missing ("absent") or null, old/new are the integers.
EventData(b, m, l, ok, o, nk, n) ==
    [bot |-> b, meta |-> m, length |-> l,
     old_kind |-> ok, old |-> o, new_kind |-> nk, new |-> n]

EventDatas ==
    { EventData(b, m, "obj", ok, o, nk, n) :
        b \in {"true", "false", "absent"}, m \in {"obj", "absent", "null"},
        ok \in {"int"}, o \in 0..MaxLen, nk \in {"int"}, n \in 0..MaxLen }
    \cup
    { EventData(b, m, "obj", ok, 0, nk, n) :
        b \in {"true", "false", "absent"}, m \in {"obj", "absent", "null"},
        ok \in {"absent", "null"}, nk \in {"int"}, n \in 0..MaxLen }
    \cup
    { EventData(b, m, "obj", ok, o, nk, 0) :
        b \in {"true", "false", "absent"}, m \in {"obj", "absent", "null"},
        ok \in {"int"}, o \in 0..MaxLen, nk \in {"absent", "null"} }
    \cup
    { EventData(b, m, l, "absent", 0, "absent", 0) :
        b \in {"true", "false", "absent"}, m \in {"obj", "absent", "null"},
        l \in {"obj", "absent", "null"} }

\* no transform_data call made
NoCleanData ==
    [status |-> "none", bot |-> 0, length_bytes_old |-> 0,
     length_bytes_new |-> 0, length_diff_bytes |-> 0]

\* int(length_data.get(key, 0)) for a length object
LengthGet(kind, value) == IF kind = "int" THEN value ELSE 0

\* a difference taken the other way round (new - old)
LengthDiff_Reversed(length_old, length_new) == length_new - length_old

\* length_diff_bytes = int(length_old - length_new)
LengthDiff(length_old, length_new) == length_old - length_new

\* transform_data on an event with its length values: the clean_data
\* dictionary (status "ok"), or the exception raised (status), in the order
\* the function evaluates: meta, length, length.old, length.new, bot.
transform_data_record(d) ==
    LET length_old == IF d.length = "obj" THEN LengthGet(d.old_kind, d.old) ELSE 0
        length_new == IF d.length = "obj" THEN LengthGet(d.new_kind, d.new) ELSE 0
        raised ==
            CASE transform_data(d) = "AttributeError" -> "AttributeError"
              [] d.length = "obj" /\ d.old_kind = "null" -> "TypeError"
              [] d.length = "obj" /\ d.new_kind = "null" -> "TypeError"
              [] OTHER -> transform_data(d)
    IN  IF raised # "ok"
        THEN [NoCleanData EXCEPT !.status = raised]
        ELSE [status |-> "ok",
              bot |-> IF d.bot = "true" THEN 1 ELSE 0,
              length_bytes_old |-> length_old,
              length_bytes_new |-> length_new,
              length_diff_bytes |-> LengthDiff(length_old, length_new)]

\* ------------------------------------------------------------- the store
\* ids handed out by row count instead of by the AUTOINCREMENT sequence
NextId_ByCount(rws, s) == Cardinality(rws) + 1

\* INTEGER PRIMARY KEY AUTOINCREMENT: one more than the largest id ever used.
NextId(rws, s) == s + 1

\* a threshold without the 10% buffer
CleanupThreshold_NoBuffer(M) == M

\* int(1.1 * db_max_events)
CleanupThreshold(M) == (11 * M) \div 10

\* a DELETE that also removes the cutoff row (id <= cutoff)
RetentionDelete_Inclusive(rws, M) ==
    IF rws = {} THEN rws
    ELSE {r \in rws : ~(r <= Max2(0, SetMax(rws) - M))}

\* a DELETE with the comparison turned round (id > cutoff)
RetentionDelete_Newest(rws, M) ==
    IF rws = {} THEN rws
    ELSE {r \in rws : ~(r > Max2(0, SetMax(rws) - M))}

\* DELETE ... WHERE id < MAX(0, (SELECT MAX(id)) - db_max_events)
RetentionDelete(rws, M) ==
    IF rws = {} THEN rws
    ELSE {r \in rws : ~(r < Max2(0, SetMax(rws) - M))}

\* a reader sharing the writer's uncommitted view
ReaderView_Uncommitted == rows

\* the snapshot a connection other than the writer's reads (WAL mode)
ReaderView == committed

\* SELECT MAX(id) FROM t ... or 0
SelectMaxId(snap) == IF snap = {} THEN 0 ELSE SetMax(snap)

\* SELECT MAX(id) - MIN(id) + 1 FROM t ... or 0
SelectTotalRows(snap) == IF snap = {} THEN 0 ELSE SetMax(snap) - SetMin(snap) + 1

\* ------------------------------------------------------------------ Init
\* main(): configuration loaded, database_init() done on a fresh file,
\* pipeline() entered and about to make its first connection attempt.
Init ==
    /\ pc = "connecting"
    /\ db_max_events \in 0..MaxM
    /\ now = 0
    /\ last_commit_time = 0
    /\ wake_time = 0
    /\ rows = {}
    /\ committed = {}
    /\ seq = 0
    /\ rows_added_to_db = 0
    /\ current_row_count = 0
    /\ msg = NoMessage
    /\ insert_result = "none"
    /\ last_step = "start"
    /\ exit_cause = "none"
    /\ d_pc = "max_id"
    /\ newest_row_id = 0
    /\ current_total_rows = 0
    /\ data = EventData("false", "obj", "obj", "int", 0, "int", 0)
    /\ clean_data = NoCleanData

Running == pc \in {"connecting", "streaming", "cleanup", "cleanup_commit", "backoff"}

\* a finally block that closes without committing
FinalFlush_NoCommit(rws, cmt) == cmt

\* What main()'s finally block leaves as the committed snapshot:
\* db_connection.commit() before db_connection.close().
FinalFlush(rws, cmt) == rws

\* An exception e leaves the try block of pipeline().  Either the except
\* clause takes it (log, time.sleep(5), continue), or it leaves pipeline()
\* and main()'s except/finally run: commit, close, the process ends.
Raise(e, step) ==
    /\ last_step' = step
    /\ IF Caught(e)
       THEN /\ pc' = "backoff"
            /\ wake_time' = now + backoff_seconds
            /\ UNCHANGED <<committed, exit_cause>>
       ELSE /\ pc' = IF e = "KeyboardInterrupt" THEN "shutdown" ELSE "crashed"
            /\ committed' = FinalFlush(rows, committed)
            /\ exit_cause' = e
            /\ UNCHANGED wake_time

\* db_insert_event: "True", "False", or the exception transform_data raises
\* before the try block is entered; ok is whether SQLite accepts the INSERT.
db_insert_event(m, ok) ==
    IF transform_data(m) # "ok" THEN transform_data(m)
    ELSE IF ok THEN "True" ELSE "False"

\* a counter incremented whatever db_insert_event returned
CountInsert_Always(n, r) == n + 1

\* pipeline.py lines 30-31: the success counter after db_insert_event returned r
CountInsert(n, r) == IF r = "True" THEN n + 1 ELSE n

\* ------------------------------------------------------------- actions
\* requests.get(...) at the first pull of a fresh generator.
\*   "ok"         - a streaming response: iterate its events
\*   "http_error" - a response without events: the generator is exhausted at
\*                  once, the for loop ends and while True starts over
\*   otherwise    - requests raises the transport exception
Connect(outcome) ==
    /\ pc = "connecting"
    /\ IF outcome \in TransportErrors
       THEN Raise(outcome, "connect")
       ELSE /\ pc' = IF outcome = "ok" THEN "streaming" ELSE "connecting"
            /\ last_step' = "connect"
            /\ UNCHANGED <<wake_time, committed, exit_cause>>
    /\ UNCHANGED <<db_max_events, now, last_commit_time, rows, seq,
                   rows_added_to_db, current_row_count, msg, insert_result,
                   dashboard_vars, transform_vars>>

\* A transport exception raised while iterating client.events().
TransportFailure(e) ==
    /\ pc = "streaming"
    /\ Raise(e, "read")
    /\ UNCHANGED <<db_max_events, now, last_commit_time, rows, seq,
                   rows_added_to_db, current_row_count, msg, insert_result,
                   dashboard_vars, transform_vars>>

\* The server closes the stream cleanly: the generator returns, the for
\* loop ends and while True starts the next connection attempt.
StreamEnd ==
    /\ pc = "streaming"
    /\ pc' = "connecting"
    /\ last_step' = "read"
    /\ UNCHANGED <<db_max_events, now, last_commit_time, wake_time, rows,
                   committed, seq, rows_added_to_db, current_row_count, msg,
                   insert_result, exit_cause, dashboard_vars, transform_vars>>

\* time.sleep(5) returns and continue re-enters the while loop.
Wake ==
    /\ pc = "backoff"
    /\ now >= wake_time
    /\ pc' = "connecting"
    /\ last_step' = "wake"
    /\ UNCHANGED <<db_max_events, now, last_commit_time, wake_time, rows,
                   committed, seq, rows_added_to_db, current_row_count, msg,
                   insert_result, exit_cause, dashboard_vars, transform_vars>>

\* One SSE event is read and handled up to the retention test
\* (pipeline.py lines 28-41); ok is whether SQLite accepts the INSERT.
OnEvent(m, ok) ==
    /\ pc = "streaming"
    /\ msg' = m
    /\ LET g == sse_event_generator(m)
           r == IF g = "yield" THEN db_insert_event(m, ok) ELSE "none"
       IN
       IF g \in {"skip", "drop"} \/ r = "False" THEN
           /\ insert_result' = r
           /\ last_step' = "event"
           /\ rows_added_to_db' = CountInsert(rows_added_to_db, r)
           /\ UNCHANGED <<pc, wake_time, last_commit_time, rows, committed, seq,
                          current_row_count, exit_cause>>
       ELSE IF r = "True" THEN
           LET id  == NextId(rows, seq)
               rws == rows \cup {id} IN
           /\ rows_added_to_db < MaxSeq
           /\ insert_result' = r
           /\ rows' = rws
           /\ seq' = Max2(seq, id)
           /\ rows_added_to_db' = CountInsert(rows_added_to_db, r)
           /\ last_step' = "event"
           /\ UNCHANGED <<wake_time, exit_cause>>
           /\ IF now - last_commit_time >= commit_interval_seconds THEN
                 /\ committed' = rws
                 /\ last_commit_time' = now
                 /\ current_row_count' = Cardinality(rws)
                 /\ pc' = IF Cardinality(rws) >= CleanupThreshold(db_max_events)
                          THEN "cleanup" ELSE "streaming"
              ELSE
                 UNCHANGED <<pc, committed, last_commit_time, current_row_count>>
       ELSE
           \* an exception of the generator (g) or of transform_data (r)
           /\ insert_result' = "none"
           /\ Raise(IF g = "yield" THEN r ELSE g, "event")
           /\ UNCHANGED <<last_commit_time, rows, seq, rows_added_to_db,
                          current_row_count>>
    /\ UNCHANGED <<db_max_events, now, dashboard_vars, transform_vars>>

\* db_connection.execute('DELETE ...') of the retention cleanup.
CleanupDelete ==
    /\ pc = "cleanup"
    /\ rows' = RetentionDelete(rows, db_max_events)
    /\ pc' = "cleanup_commit"
    /\ last_step' = "delete"
    /\ UNCHANGED <<db_max_events, now, last_commit_time, wake_time, committed,
                   seq, rows_added_to_db, current_row_count, msg, insert_result,
                   exit_cause, dashboard_vars, transform_vars>>

\* db_connection.commit(); current_row_count = db_max_events
CleanupCommit ==
    /\ pc = "cleanup_commit"
    /\ committed' = rows
    /\ current_row_count' = db_max_events
    /\ pc' = "streaming"
    /\ last_step' = "cleanup_commit"
    /\ UNCHANGED <<db_max_events, now, last_commit_time, wake_time, rows, seq,
                   rows_added_to_db, msg, insert_result, exit_cause,
                   dashboard_vars, transform_vars>>

\* KeyboardInterrupt delivered to the running process.
Stop ==
    /\ Running
    /\ Raise("KeyboardInterrupt", "stop")
    /\ UNCHANGED <<db_max_events, now, last_commit_time, rows, seq,
                   rows_added_to_db, current_row_count, msg, insert_result,
                   dashboard_vars, transform_vars>>

\* One second of wall-clock time passes while pipeline() runs.
Tick ==
    /\ Running
    /\ now < MaxTime
    /\ now' = now + 1
    /\ UNCHANGED <<writer_vars, dashboard_vars, transform_vars>>

\* dashboard.py line 39
DashboardMaxId ==
    /\ d_pc = "max_id"
    /\ newest_row_id' = SelectMaxId(ReaderView)
    /\ d_pc' = "total_rows"
    /\ UNCHANGED <<writer_vars, now, current_total_rows, transform_vars>>

\* dashboard.py line 40
DashboardTotalRows ==
    /\ d_pc = "total_rows"
    /\ current_total_rows' = SelectTotalRows(ReaderView)
    /\ d_pc' = "max_id"
    /\ UNCHANGED <<writer_vars, now, newest_row_id, transform_vars>>

\* The writer process alone.
Next ==
    \/ \E o \in {"ok", "http_error"} \cup TransportErrors : Connect(o)
    \/ \E e \in TransportErrors : TransportFailure(e)
    \/ StreamEnd
    \/ Wake
    \/ \E m \in Messages, ok \in BOOLEAN : OnEvent(m, ok)
    \/ CleanupDelete
    \/ CleanupCommit
    \/ Stop
    \/ Tick

Spec == Init /\ [][Next]_vars

\* The writer process and a dashboard polling the same store.
NextDashboard ==
    \/ Next
    \/ DashboardMaxId
    \/ DashboardTotalRows

SpecDashboard == Init /\ [][NextDashboard]_vars

\* CREATE TABLE without IF NOT EXISTS semantics: the table is made anew
database_init_Recreate(store) == {}

\* database_init on the store file: CREATE TABLE IF NOT EXISTS leaves an
\* existing table and its rows alone (an absent table is the empty one).
database_init(store) == store

\* main() started on a store file a previous run left behind: ids lo..hi
\* committed (a contiguous range, fresh file when hi = 0), sqlite_sequence
\* at hi; database_init() not yet called.
InitExisting ==
    /\ pc = "starting"
    /\ db_max_events \in 0..MaxM
    /\ now = 0
    /\ last_commit_time = 0
    /\ wake_time = 0
    /\ \E hi \in 0..MaxExisting : \E lo \in 1..Max2(1, hi) :
          /\ committed = lo..hi
          /\ rows = lo..hi
          /\ seq = hi
    /\ rows_added_to_db = 0
    /\ current_row_count = 0
    /\ msg = NoMessage
    /\ insert_result = "none"
    /\ last_step = "start"
    /\ exit_cause = "none"
    /\ d_pc = "max_id"
    /\ newest_row_id = 0
    /\ current_total_rows = 0
    /\ data = EventData("false", "obj", "obj", "int", 0, "int", 0)
    /\ clean_data = NoCleanData

\* main() lines 213-217: database_init() opens the connection, makes sure
\* the table exists and commits; pipeline() starts with fresh locals.
DatabaseInit ==
    /\ pc = "starting"
    /\ committed' = database_init(committed)
    /\ rows' = database_init(committed)
    /\ rows_added_to_db' = 0
    /\ last_commit_time' = now
    /\ pc' = "connecting"
    /\ last_step' = "database_init"
    /\ UNCHANGED <<db_max_events, now, wake_time, seq, current_row_count, msg,
                   insert_result, exit_cause, dashboard_vars, transform_vars>>

\* A run of the writer on a store that may already hold rows.
NextRestart ==
    \/ DatabaseInit
    \/ Next

SpecRestart == InitExisting /\ [][NextRestart]_vars

\* main() started with db_max_events = BufferedM on a store that holds
\* ids 1..n, n a little below the cleanup threshold.
InitRetention ==
    /\ pc = "starting"
    /\ db_max_events = BufferedM
    /\ now = 0
    /\ last_commit_time = 0
    /\ wake_time = 0
    /\ \E n \in (BufferedM - 2)..BufferedM :
          /\ committed = 1..n
          /\ rows = 1..n
          /\ seq = n
    /\ rows_added_to_db = 0
    /\ current_row_count = 0
    /\ msg = NoMessage
    /\ insert_result = "none"
    /\ last_step = "start"
    /\ exit_cause = "none"
    /\ d_pc = "max_id"
    /\ newest_row_id = 0
    /\ current_total_rows = 0
    /\ data = EventData("false", "obj", "obj", "int", 0, "int", 0)
    /\ clean_data = NoCleanData

SpecRetention == InitRetention /\ [][NextRestart]_vars

\* transform_data(event) called on its own, for any event the generator
\* can yield.
InitTransform ==
    /\ pc = "connecting"
    /\ db_max_events = 0
    /\ now = 0
    /\ last_commit_time = 0
    /\ wake_time = 0
    /\ rows = {}
    /\ committed = {}
    /\ seq = 0
    /\ rows_added_to_db = 0
    /\ current_row_count = 0
    /\ msg = NoMessage
    /\ insert_result = "none"
    /\ last_step = "start"
    /\ exit_cause = "none"
    /\ d_pc = "max_id"
    /\ newest_row_id = 0
    /\ current_total_rows = 0
    /\ data \in EventDatas
    /\ clean_data = NoCleanData

TransformData ==
    /\ clean_data.status = "none"
    /\ clean_data' = transform_data_record(data)
    /\ UNCHANGED <<writer_vars, now, dashboard_vars, data>>

NextTransform == TransformData

SpecTransform == InitTransform /\ [][NextTransform]_vars

TypeOK ==
    /\ pc \in {"starting", "connecting", "streaming", "cleanup",
               "cleanup_commit", "backoff", "shutdown", "crashed"}
    /\ db_max_events \in 0..MaxM
    /\ now \in 0..MaxTime
    /\ rows \subseteq 1..(MaxExisting + MaxSeq)
    /\ committed \subseteq 1..(MaxExisting + MaxSeq)
    /\ seq \in 0..(MaxExisting + MaxSeq)
    /\ msg \in Messages

\* ------------------------------------------------------------ properties
\* An SSE event is read and handled in this step.
EventHandled ==
    /\ pc = "streaming"
    /\ last_step' = "event"
    /\ UNCHANGED <<now, dashboard_vars>>

\* The n highest ids of S.
HighestIds(S, n) == {r \in S : Cardinality({q \in S : q > r}) < n}

\* A kept event that carries every field transform_data reads.
ValidKept(m) ==
    /\ m.kind = "object"
    /\ m.type \in {"edit", "new"}
    /\ transform_data(m) = "ok"

\* C1: a transport failure while connecting or streaming never ends
\* pipeline(): no transport exception ever leaves it; the coordinator enters
\* the backoff wait of backoff_seconds with the writer's rows and the
\* committed snapshot untouched, and leaves the wait only for a new
\* connection attempt once the delay is over (or for shutdown on a stop
\* signal), again with the committed snapshot untouched.
C1_TransportFailureRecovers ==
    /\ [](exit_cause \notin TransportErrors)
    /\ [][(pc # "backoff" /\ pc' = "backoff") =>
            /\ pc \in {"connecting", "streaming"}
            /\ last_step' \in {"connect", "read"}
            /\ wake_time' = now + backoff_seconds
            /\ rows' = rows
            /\ committed' = committed]_vars
    /\ [][(pc = "backoff" /\ pc' # "backoff") =>
            \/ pc' = "shutdown"
            \/ /\ pc' = "connecting"
               /\ now >= wake_time
               /\ rows' = rows
               /\ committed' = committed]_vars

\* C1 witness: a reconnect attempt after a mid-stream failure that happened
\* when rows were already committed.
C1_Witness ==
    /\ pc = "connecting"
    /\ last_step = "wake"
    /\ committed # {}
    /\ now >= wake_time

\* C2: a stop signal ends the run in shutdown with every row the writer
\* holds committed, and after shutdown the writer does nothing more.
C2_StopFlushesAndEnds ==
    /\ []((pc = "shutdown") => (exit_cause = "KeyboardInterrupt" /\ committed = rows))
    /\ [][(Running /\ last_step' = "stop" /\ last_step # "stop") =>
            (pc' = "shutdown" /\ rows' = rows /\ committed' = rows)]_vars
    /\ [][(pc = "shutdown") => UNCHANGED writer_vars]_vars

\* C2 witness: shutdown reached with rows that no commit tick had committed.
C2_Witness ==
    /\ pc = "shutdown"
    /\ rows # {}
    /\ last_commit_time = 0
    /\ committed = rows

\* C3: no per-event failure leaves the coordinator loop: pipeline() ends
\* only on an explicit stop signal.
C3_OnlyStopEndsPipeline ==
    exit_cause \in {"none", "KeyboardInterrupt"}

\* C4: for a positive db_max_events, the retention cleanup leaves exactly
\* db_max_events rows, the db_max_events rows with the highest ids present
\* before it.
C4_CleanupLeavesExactlyM ==
    [][(db_max_events >= 1 /\ pc = "cleanup" /\ pc' = "cleanup_commit") =>
          /\ Cardinality(rows') = db_max_events
          /\ rows' = HighestIds(rows, db_max_events)]_vars

\* C5: while the pipeline runs, uncommitted rows never outlive the commit
\* interval: once the interval has elapsed since the last commit they are
\* committed, with or without a further event.
C5_CommitWithinInterval ==
    (Running /\ rows # committed) =>
        now - last_commit_time <= commit_interval_seconds

\* C6: a payload that decodes to a JSON object is retained (exactly one row
\* inserted, the store accepting it) iff its type is edit or new; any other
\* or missing type gives no row; and in neither case an error.
C6_RetainedIffEditOrNew ==
    [][(EventHandled /\ msg'.kind = "object" /\ insert_result' # "False") =>
          /\ exit_cause' = "none"
          /\ IF msg'.type \in {"edit", "new"}
             THEN \E id \in rows' : id \notin rows /\ rows' = rows \cup {id}
             ELSE rows' = rows]_vars

\* C7: every newly inserted row gets an id greater than every id assigned
\* before (seq is the largest id ever assigned and never decreases, and no
\* row ever holds an id above it), also after a cleanup deleted rows.
C7_IdsStrictlyIncrease ==
    /\ [](\A r \in rows \cup committed : r <= seq)
    /\ [][seq' >= seq]_vars
    /\ [][(EventHandled /\ insert_result' = "True") =>
            \E id \in rows' :
               /\ id \notin rows
               /\ id > seq
               /\ seq' = id
               /\ \A r \in rows \cup committed : id > r]_vars

\* C7 witness: a row was inserted after a cleanup had deleted the oldest rows.
C7_Witness ==
    /\ last_step = "event"
    /\ insert_result = "True"
    /\ rows # {}
    /\ 1 \notin rows
    /\ Cardinality(rows) < seq
    /\ rows # committed

\* C8: a payload that is not valid JSON is skipped without raising and
\* changes nothing (the coordinator stays in streaming), and each valid kept
\* event the store accepts adds exactly one row, with the next id in arrival
\* order, the success counter following it.
C8_CorruptPayloadSkipped ==
    [][EventHandled =>
          /\ (msg'.kind = "invalid_json") =>
                /\ pc' = "streaming"
                /\ insert_result' = "none"
                /\ UNCHANGED <<rows, committed, seq, rows_added_to_db,
                               last_commit_time, exit_cause>>
          /\ (ValidKept(msg') /\ insert_result' = "True") =>
                /\ pc' \in {"streaming", "cleanup"}
                /\ rows' = rows \cup {seq + 1}
                /\ seq' = seq + 1
                /\ rows_added_to_db' = rows_added_to_db + 1
                /\ exit_cause' = "none"]_vars

\* C8 witness: a corrupt payload was skipped after rows had been inserted.
C8_Witness ==
    /\ last_step = "event"
    /\ msg.kind = "invalid_json"
    /\ pc = "streaming"
    /\ rows_added_to_db >= 1
    /\ exit_cause = "none"

\* C9: when the store rejects an insert, nothing changes: no row, the
\* counter, the last-commit time and the committed snapshot stay as they
\* were, no commit or retention runs and the coordinator stays in streaming.
C9_RejectedInsertChangesNothing ==
    [][(EventHandled /\ insert_result' = "False") =>
          /\ pc' = "streaming"
          /\ exit_cause' = "none"
          /\ UNCHANGED <<rows, committed, seq, rows_added_to_db,
                         last_commit_time, current_row_count>>]_vars

\* C9 witness: an insert was rejected while rows were uncommitted and the
\* commit interval had already elapsed.
C9_Witness ==
    /\ last_step = "event"
    /\ insert_result = "False"
    /\ pc = "streaming"
    /\ rows # committed
    /\ now - last_commit_time >= commit_interval_seconds

\* C11: for every event transform_data accepts, length_bytes_old and
\* length_bytes_new are the event's length.old and length.new, each 0 when
\* the key or the whole length object is absent, and length_diff_bytes is
\* length_bytes_old minus length_bytes_new; without any length all three
\* are 0.
C11_LengthsAndDiff ==
    (clean_data.status = "ok") =>
        /\ clean_data.length_bytes_old =
              (IF data.length = "obj" /\ data.old_kind = "int" THEN data.old ELSE 0)
        /\ clean_data.length_bytes_new =
              (IF data.length = "obj" /\ data.new_kind = "int" THEN data.new ELSE 0)
        /\ clean_data.length_diff_bytes =
              clean_data.length_bytes_old - clean_data.length_bytes_new
        /\ (data.length = "absent") =>
              /\ clean_data.length_bytes_old = 0
              /\ clean_data.length_bytes_new = 0
              /\ clean_data.length_diff_bytes = 0

\* C11 witness: an accepted event whose page grew (negative difference)
\* with both lengths non-zero.
C11_Witness ==
    /\ clean_data.status = "ok"
    /\ data.length = "obj"
    /\ clean_data.length_bytes_old >= 1
    /\ clean_data.length_bytes_new > clean_data.length_bytes_old
    /\ clean_data.length_diff_bytes < 0

\* C12: database_init on a store that already holds rows leaves every row
\* and its id as committed before, and the id sequence where it was: the
\* new writer connection starts from exactly the committed rows.
C12_InitKeepsExistingRows ==
    [][(pc = "starting" /\ pc' # "starting") =>
          /\ pc' = "connecting"
          /\ committed' = committed
          /\ rows' = committed
          /\ seq' = seq]_vars

\* C12 witness: database_init ran on a store holding rows that an earlier
\* cleanup had already trimmed.
C12_Witness ==
    /\ last_step = "database_init"
    /\ pc = "connecting"
    /\ committed # {}
    /\ 1 \notin committed
    /\ rows = committed

\* C13: the coordinator enters connecting only from backoff (process start
\* aside): never directly from streaming, also when the stream just ends.
C13_ReconnectOnlyAfterBackoff ==
    [][(pc' = "connecting" /\ pc # "connecting") => pc = "backoff"]_vars

\* C14 as claimed: the retention DELETE runs only while the live row count
\* exceeds db_max_events by more than 10%.
C14_DeleteOnlyAboveBuffer ==
    [][(pc = "cleanup" /\ pc' = "cleanup_commit") =>
          10 * Cardinality(rows) > 11 * db_max_events]_vars

\* C14 amended: rows leave the table only in the retention DELETE; the
\* DELETE is scheduled only by a commit tick (a successful insert with the
\* commit interval elapsed, the rows just committed), and only when the
\* live row count has reached int(1.1 * db_max_events); it never runs
\* while the count is below that threshold.
C14_DeleteOnlyAtThreshold ==
    /\ [][(~(rows \subseteq rows')) =>
            (pc = "cleanup" /\ pc' = "cleanup_commit")]_vars
    /\ [][(pc # "cleanup" /\ pc' = "cleanup") =>
            /\ EventHandled
            /\ insert_result' = "True"
            /\ now - last_commit_time >= commit_interval_seconds
            /\ last_commit_time' = now
            /\ committed' = rows'
            /\ Cardinality(rows') >= (11 * db_max_events) \div 10]_vars
    /\ [][(pc = "cleanup" /\ pc' = "cleanup_commit") =>
            Cardinality(rows) >= (11 * db_max_events) \div 10]_vars

\* C14 witness: the DELETE ran with the live row count exactly at
\* int(1.1 * db_max_events), above db_max_events.
C14_Witness ==
    /\ pc = "cleanup_commit"
    /\ last_step = "delete"
    /\ Cardinality(committed) = (11 * db_max_events) \div 10
    /\ Cardinality(committed) > db_max_events

\* A set of ids that is one integer interval.
Contiguous(S) == S = {} \/ S = SetMin(S)..SetMax(S)

\* C15: the ids of the live rows, in the writer's view and in every
\* committed snapshot, form one contiguous interval that ends at the largest
\* id ever assigned; so for a non-empty snapshot MAX(id) - MIN(id) + 1 is
\* its row count, and that is what the dashboard's total query returns.
C15_IdsContiguous ==
    /\ [](Contiguous(rows) /\ Contiguous(committed))
    /\ []((rows # {}) => (SetMax(rows) = seq))
    /\ []((committed # {}) =>
            (SetMax(committed) - SetMin(committed) + 1 = Cardinality(committed)))
    /\ [][(d_pc = "total_rows" /\ d_pc' = "max_id" /\ committed # {}) =>
            current_total_rows' = Cardinality(committed)]_vars

\* C15 witness: the dashboard read the total of a snapshot of several rows
\* whose oldest rows a cleanup had deleted.
C15_Witness ==
    /\ d_pc = "max_id"
    /\ committed # {}
    /\ 1 \notin committed
    /\ Cardinality(committed) >= 2
    /\ current_total_rows = Cardinality(committed)

\* A commit tick is completed in this step: either the commit of a tick
\* that needs no cleanup, or the commit that follows the retention DELETE.
TickCompleted ==
    \/ /\ EventHandled
       /\ insert_result' = "True"
       /\ now - last_commit_time >= commit_interval_seconds
       /\ pc' = "streaming"
    \/ /\ pc = "cleanup_commit"
       /\ pc' = "streaming"

\* C16: for db_max_events >= 1, right after each completed commit tick the
\* live row count is at most floor(1.1 * db_max_events).
C16_BoundedAfterTick ==
    [][(db_max_events >= 1 /\ TickCompleted) =>
          Cardinality(rows') <= (11 * db_max_events) \div 10]_vars

\* C17: the retention DELETE never removes the row with the highest id (so
\* never empties a non-empty table); MAX(id) of the committed snapshot
\* never decreases, and neither does the newest row id the dashboard reads
\* from one poll to the next.
C17_MaxIdNeverDecreases ==
    /\ [][(pc = "cleanup" /\ pc' = "cleanup_commit" /\ rows # {}) =>
            (rows' # {} /\ SetMax(rows) \in rows')]_vars
    /\ [][SelectMaxId(committed') >= SelectMaxId(committed)]_vars
    /\ [][newest_row_id' >= newest_row_id]_vars

\* C17 witness: with db_max_events = 0 a cleanup has deleted rows and the
\* dashboard has read the id of the newest, surviving row.
C17_Witness ==
    /\ db_max_events = 0
    /\ committed # {}
    /\ 1 \notin committed
    /\ last_step = "cleanup_commit"
    /\ newest_row_id = SetMax(committed)
    /\ newest_row_id >= 2

\* C10: each dashboard query returns the value of the last committed
\* snapshot: never the id of an uncommitted row, and never the effect of a
\* retention delete that is not committed yet.
C10_ReaderSeesCommittedOnly ==
    /\ [][(d_pc = "max_id" /\ d_pc' = "total_rows") =>
            /\ newest_row_id' = SelectMaxId(committed)
            /\ newest_row_id' \notin (rows \ committed)]_vars
    /\ [][(d_pc = "total_rows" /\ d_pc' = "max_id") =>
            current_total_rows' = SelectTotalRows(committed)]_vars

\* C10 witness: the dashboard read MAX(id) and the row total while a
\* retention delete was done but not committed.
C10_Witness ==
    /\ pc = "cleanup_commit"
    /\ rows # committed
    /\ committed # {}
    /\ d_pc = "max_id"
    /\ newest_row_id = SetMax(committed)
    /\ current_total_rows = Cardinality(committed)
    /\ current_total_rows > Cardinality(rows)
====
